---- MODULE Spec2Model ----
(***************************************************************************)
(* Stereo side-by-side renderers of equipement-viture:                     *)
(*   tools/viture_3d_demo.py     (Demo3DScene, Star, FloatingObject, main)  *)
(*   tools/viture_sbs_renderer.py (VitureRenderer, main)                    *)
(* and the display discovery of tools/viture_direct_gl.py (main).          *)
(*                                                                         *)
(* Fixed-point units used for the program's floats:                        *)
(*   ipd, eye offsets, view translations : 0.0005 m (0.070 m = 140)        *)
(*   near, far                           : tenths of a scene unit          *)
(*   wall-clock time, dt                 : whole seconds                   *)
(*   Star.x, Star.y, Star.z              : scene units                     *)
(*   Star.speed                          : tenths (0.5 = 5, 2.0 = 20)      *)
(*   angles given to sin                 : quarter radians                 *)
(*   sin                                 : thousandths                     *)
(*   FloatingObject.z                    : thousandths of a scene unit     *)
(*   FloatingObject.y_offset             : 1/10000 of a scene unit         *)
(*   rot_x, rot_y, rot_speed_*           : degrees, degrees per second     *)
(***************************************************************************)
EXTENDS Integers, Sequences, FiniteSets, TLC

VARIABLES
    prog,        \* which entry point runs: "demo", "sbs" or "direct_gl"
    pc,          \* position in main()/run()
    test_pattern,\* sbs: args.test
    cfg,         \* self.width, height, eye_width, ipd, near, far, fov
    running,     \* self.running
    stars,       \* self.stars
    objects,     \* self.objects
    gl,          \* the OpenGL context state
    now,         \* current_time - start_time at the last clock read
    dt,          \* dt of the current iteration (demo)
    log,         \* the GL calls of the frame of this iteration, each with the state it
                 \* acted in; empty from handle_events until render_frame is entered
    constructed, \* main's demo / renderer variable is bound
    frame_count, \* run(): frames counted in the current sampling window
    fps_time,    \* run(): start of the sampling window, as fps_time - start_time
    drm,         \* viture_direct_gl: the DRM device's answers, main's locals, and
                 \* how often each object was released
    hist         \* observation of the run: what was polled, rendered, reported and
                 \* cleaned up, the exit status, and the events and the (running, ipd)
                 \* of the handle_events call whose clock read is pending

vars == <<prog, pc, test_pattern, cfg, running, stars, objects, gl, now, dt, log,
          constructed, frame_count, fps_time, drm, hist>>

----------------------------------------------------------------------------
(* Bounds of the model *)

MaxTime == 2
MaxDt == 1
MaxEvents == 1
MaxIpd == 150
MaxFrames == 2
MaxConnectors == 3

(* Program constants *)

Z_MAX == 100
DEPTH_RATE == 30
IPD_STEP == 10
IPD_MIN == 40
RING_COUNT == 8
FPS_WINDOW == 1
DRM_MODE_CONNECTED == 1
DRM_MODE_DISCONNECTED == 2
DRM_MODE_CONNECTOR_HDMIA == 11
DRM_MODE_CONNECTOR_HDMIB == 12
DRM_MODE_CONNECTOR_DisplayPort == 10

DtValues == 0..MaxDt

\* the slots of self.stars the model keeps (the program has 200): Star.update and
\* Star.reset read and write the star's own fields only, so stars never interact
StarIndex == {1}

\* random.uniform draws of Star.reset: (x in [-50,50], y in [-30,30], speed in [0.5,2.0])
StarDraws ==
    { [x |-> -50, y |-> 30, speed |-> 5],
      [x |-> 50, y |-> -30, speed |-> 20] }

\* random.uniform(1, 100) of Star.__init__
StarInitZ == {1, Z_MAX}

\* random.uniform draws of FloatingObject.__init__
ObjectDraws ==
    { [rot_x |-> 0, rot_y |-> 360, rot_speed_x |-> 50, rot_speed_y |-> -50,
       bob_offset |-> 0, bob_speed |-> 2, z_speed |-> 2, z_phase |-> 25],
      [rot_x |-> 360, rot_y |-> 0, rot_speed_x |-> -50, rot_speed_y |-> 0,
       bob_offset |-> 25, bob_speed |-> 6, z_speed |-> 3, z_phase |-> 0] }

Events == {"SDL_QUIT", "K_ESCAPE", "K_q", "K_PLUS", "K_EQUALS", "K_MINUS", "K_OTHER"}

EventSeqs == UNION { [1..n -> Events] : n \in 0..MaxEvents }

InitFailures == {"none", "SDL_Init", "SDL_CreateWindow", "SDL_GL_CreateContext"}

----------------------------------------------------------------------------
(* math.sin and math.tan *)

SinTable ==
    << 0, 247, 479, 682, 841, 949, 997, 984, 909, 778, 598, 382, 141, -108, -351,
       -572, -757, -895, -978, -999, -959, -859, -706, -508, -279, -33, 215, 450,
       657, 823, 938, 995, 989, 923, 798, 625, 412, 174, -75, -320, -544, -735,
       -880, -970, -1000, -968, -875, -729, -537, -311, -66, 183, 420, 632, 804,
       926, 991, 994, 935, 818, 650, 442, 206, -42 >>

\* sin of a quarter radians, in thousandths
Sin(a) == SinTable[a + 1]

\* tan(radians(fov / 2)) in 1/100000, for the two fields of view the programs use
TanHalf(fov) == IF fov = 45 THEN 41421 ELSE 52057

\* sin of multiples of 15 degrees over one turn, in thousandths
SinDegTable ==
    << 0, 259, 500, 707, 866, 966, 1000, 966, 866, 707, 500, 259, 0, -259, -500, -707, -866, -966, -1000, -966, -866, -707, -500, -259 >>

\* math.sin(math.radians(deg)) and math.cos(math.radians(deg)), deg a multiple of 15
SinDeg(deg) == SinDegTable[((deg % 360) \div 15) + 1]

CosDeg(deg) == SinDeg(deg + 90)

Max(a, b) == IF a >= b THEN a ELSE b

----------------------------------------------------------------------------
(* Star *)

StarReset(s, r) == [x |-> r.x, y |-> r.y, z |-> Z_MAX, speed |-> r.speed]

StarInit(r, z0) == [StarReset([x |-> 0, y |-> 0, z |-> 0, speed |-> 0], r) EXCEPT !.z = z0]

\* update() that never calls reset()
StarUpdateNoReset(s, d, r) == [s EXCEPT !.z = s.z - (s.speed * d * DEPTH_RATE) \div 10]

\* update() whose respawn test is "self.z < 0"
StarUpdateLateThreshold(s, d, r) ==
    LET moved == [s EXCEPT !.z = s.z - (s.speed * d * DEPTH_RATE) \div 10]
    IN  IF moved.z < 0 THEN StarReset(moved, r) ELSE moved

StarUpdate(s, d, r) ==
    LET moved == [s EXCEPT !.z = s.z - (s.speed * d * DEPTH_RATE) \div 10]
    IN  IF moved.z < 1 THEN StarReset(moved, r) ELSE moved

(* FloatingObject *)

FloatingObjectInit(type, x, y, z, size, r) ==
    [type |-> type, x |-> x, y |-> y, z_base |-> z, z |-> 1000 * z, size |-> size,
     rot_x |-> r.rot_x, rot_y |-> r.rot_y,
     rot_speed_x |-> r.rot_speed_x, rot_speed_y |-> r.rot_speed_y,
     bob_offset |-> r.bob_offset, bob_speed |-> r.bob_speed,
     z_amplitude |-> (z * 4) \div 10, z_speed |-> r.z_speed, z_phase |-> r.z_phase,
     has_y_offset |-> FALSE, y_offset |-> 0]

\* update() that adds the oscillation to the current depth
ObjectDepthFromCurrent(o, s) == o.z + s * o.z_amplitude

\* z_base + sine * z_amplitude, for the sine s in thousandths
ObjectDepth(o, s) == 1000 * o.z_base + s * o.z_amplitude

FloatingObjectUpdate(o, d, time_s) ==
    [o EXCEPT !.rot_x = o.rot_x + o.rot_speed_x * d,
              !.rot_y = o.rot_y + o.rot_speed_y * d,
              !.has_y_offset = TRUE,
              !.y_offset = Sin(time_s * o.bob_speed + o.bob_offset) * 3,
              !.z = ObjectDepth(o, Sin(time_s * o.z_speed + o.z_phase))]

----------------------------------------------------------------------------
(* Construction: Demo3DScene.__init__ and VitureRenderer.__init__ *)

DemoConfig ==
    [width |-> 3840, height |-> 1080, eye_width |-> 3840 \div 2,
     ipd |-> 140, near |-> 1, far |-> 2000, fov |-> 55]

\* VitureRenderer.__init__(width, height): the fields
SbsConfigFor(width, height) ==
    [width |-> width, height |-> height, eye_width |-> width \div 2,
     ipd |-> 130, near |-> 1, far |-> 1000, fov |-> 45]

\* the defaults, which main() constructs with
SbsConfig == SbsConfigFor(3840, 1080)

\* surface sizes a caller of VitureRenderer(width, height) passes: the default, one
\* eye's panel, and sizes of odd width
SurfaceSizes == {<<3840, 1080>>, <<1920, 1080>>, <<1365, 768>>, <<7, 4>>}

DemoObjects(r) ==
    << [FloatingObjectInit("cube", 0, 0, 15, 2, r)
          EXCEPT !.z_amplitude = 12, !.z_speed = 1, !.z_phase = 0] >>

\* the context state after _init_gl: depth test on; scissor off, scissor box and
\* viewport at their initial value, the window
InitGl(c) ==
    [scissor_test |-> FALSE, depth_test |-> TRUE,
     scissor |-> <<0, 0, c.width, c.height>>,
     viewport |-> <<0, 0, c.width, c.height>>,
     mode |-> "MODELVIEW",
     mat |-> [PROJECTION |-> <<>>, MODELVIEW |-> <<>>],
     stack |-> <<>>]

NoGl == InitGl([width |-> 0, height |-> 0])

----------------------------------------------------------------------------
(* The OpenGL calls the renderers make, as operators on a machine state        *)
(*   m = [gl, cfg, stars, objects, log, eye]                                    *)
(* m.eye is the part of render_frame being executed: "none", "left", "right".  *)
(* A matrix is the sequence of transforms multiplied onto it since the last     *)
(* glLoadIdentity.                                                              *)

Entry(m, op, what) ==
    [op |-> op, what |-> what, eye |-> m.eye,
     scissor_test |-> m.gl.scissor_test, scissor |-> m.gl.scissor,
     viewport |-> m.gl.viewport, depth_test |-> m.gl.depth_test,
     proj |-> m.gl.mat.PROJECTION, mv |-> m.gl.mat.MODELVIEW,
     cfg |-> m.cfg, stars |-> m.stars, objects |-> m.objects]

Emit(m, op, what) == [m EXCEPT !.log = Append(@, Entry(m, op, what))]

AtEye(m, eye) == [m EXCEPT !.eye = eye]

GlClear(m, what) == Emit(m, "clear", what)

GlEnable(m, cap) ==
    IF cap = "SCISSOR_TEST" THEN [m EXCEPT !.gl.scissor_test = TRUE]
    ELSE [m EXCEPT !.gl.depth_test = TRUE]

GlDisable(m, cap) ==
    IF cap = "SCISSOR_TEST" THEN [m EXCEPT !.gl.scissor_test = FALSE]
    ELSE [m EXCEPT !.gl.depth_test = FALSE]

GlViewport(m, x, y, w, h) == [m EXCEPT !.gl.viewport = <<x, y, w, h>>]

GlScissor(m, x, y, w, h) == [m EXCEPT !.gl.scissor = <<x, y, w, h>>]

GlMatrixMode(m, mode) == [m EXCEPT !.gl.mode = mode]

GlLoadIdentity(m) == [m EXCEPT !.gl.mat[m.gl.mode] = <<>>]

GlMultMatrix(m, t) == [m EXCEPT !.gl.mat[m.gl.mode] = Append(@, t)]

GluPerspective(m, fov, aspect, near, far) ==
    GlMultMatrix(m, <<"perspective", fov, aspect, near, far>>)

GlFrustum(m, l, r, b, t, near, far) ==
    GlMultMatrix(m, <<"frustum", l, r, b, t, near, far>>)

GlOrtho(m, l, r, b, t, near, far) ==
    GlMultMatrix(m, <<"ortho", l, r, b, t, near, far>>)

GlTranslatef(m, x, y, z) == GlMultMatrix(m, <<"translate", x, y, z>>)

GlRotatef(m, angle, x, y, z) == GlMultMatrix(m, <<"rotate", angle, x, y, z>>)

GlPushMatrix(m) == [m EXCEPT !.gl.stack = Append(@, m.gl.mat[m.gl.mode])]

GlPopMatrix(m) ==
    [m EXCEPT !.gl.mat[m.gl.mode] = m.gl.stack[Len(m.gl.stack)],
              !.gl.stack = SubSeq(@, 1, Len(@) - 1)]

SwapWindow(m) == Emit(m, "swap", "window")

----------------------------------------------------------------------------
(* Demo3DScene: camera and scene *)

\* set_stereo_projection with the sign of the camera translation inverted
SetStereoProjectionSwapped(m, eye) ==
    LET m1 == GlLoadIdentity(GlMatrixMode(m, "PROJECTION"))
        aspect == <<m.cfg.eye_width, m.cfg.height>>
        m2 == GluPerspective(m1, m.cfg.fov, aspect, m.cfg.near, m.cfg.far)
        m3 == GlLoadIdentity(GlMatrixMode(m2, "MODELVIEW"))
        eye_x == IF eye = "left" THEN -(m.cfg.ipd \div 2) ELSE m.cfg.ipd \div 2
    IN  Emit(GlTranslatef(m3, eye_x, 0, 0), "set_projection", eye)

\* set_stereo_projection without glLoadIdentity() on the projection matrix
SetStereoProjectionAccumulating(m, eye) ==
    LET m1 == GlMatrixMode(m, "PROJECTION")
        aspect == <<m.cfg.eye_width, m.cfg.height>>
        m2 == GluPerspective(m1, m.cfg.fov, aspect, m.cfg.near, m.cfg.far)
        m3 == GlLoadIdentity(GlMatrixMode(m2, "MODELVIEW"))
        eye_x == IF eye = "left" THEN -(m.cfg.ipd \div 2) ELSE m.cfg.ipd \div 2
    IN  Emit(GlTranslatef(m3, -eye_x, 0, 0), "set_projection", eye)

\* set_stereo_projection whose right eye uses the initial half-IPD, not self.ipd
SetStereoProjectionFixedRight(m, eye) ==
    LET m1 == GlLoadIdentity(GlMatrixMode(m, "PROJECTION"))
        aspect == <<m.cfg.eye_width, m.cfg.height>>
        m2 == GluPerspective(m1, m.cfg.fov, aspect, m.cfg.near, m.cfg.far)
        m3 == GlLoadIdentity(GlMatrixMode(m2, "MODELVIEW"))
        eye_x == IF eye = "left" THEN -(m.cfg.ipd \div 2) ELSE 70
    IN  Emit(GlTranslatef(m3, -eye_x, 0, 0), "set_projection", eye)

SetStereoProjection(m, eye) ==
    LET m1 == GlLoadIdentity(GlMatrixMode(m, "PROJECTION"))
        aspect == <<m.cfg.eye_width, m.cfg.height>>
        m2 == GluPerspective(m1, m.cfg.fov, aspect, m.cfg.near, m.cfg.far)
        m3 == GlLoadIdentity(GlMatrixMode(m2, "MODELVIEW"))
        eye_x == IF eye = "left" THEN -(m.cfg.ipd \div 2) ELSE m.cfg.ipd \div 2
    IN  Emit(GlTranslatef(m3, -eye_x, 0, 0), "set_projection", eye)

DrawCube(m, what) == Emit(m, "draw_cube", what)

DrawStarfield(m) ==
    GlEnable(Emit(GlDisable(m, "DEPTH_TEST"), "draw_starfield", "stars"), "DEPTH_TEST")

\* draw_floor_grid without the closing glEnable(GL_DEPTH_TEST)
DrawFloorGridDepthLeftOff(m) ==
    Emit(GlDisable(m, "DEPTH_TEST"), "draw_floor_grid", "grid")

DrawFloorGrid(m) ==
    GlEnable(Emit(GlDisable(m, "DEPTH_TEST"), "draw_floor_grid", "grid"), "DEPTH_TEST")

\* for star in self.stars: star.update(dt)
UpdateStars(m, d, rs) ==
    [m EXCEPT !.stars = [i \in DOMAIN m.stars |-> StarUpdate(m.stars[i], d, rs[i])]]

\* one pass of "for obj in self.objects", from object i on
RECURSIVE DrawObjects(_, _, _, _)
DrawObjects(m, i, time_s, d) ==
    IF i > Len(m.objects) THEN m
    ELSE LET o == FloatingObjectUpdate(m.objects[i], d, time_s)
             m1 == GlPushMatrix([m EXCEPT !.objects[i] = o])
             m2 == GlTranslatef(m1, o.x, 10000 * o.y + o.y_offset, -o.z)
             m3 == GlRotatef(GlRotatef(m2, o.rot_x, 1, 0, 0), o.rot_y, 0, 1, 0)
         IN  DrawObjects(GlPopMatrix(DrawCube(m3, "object")), i + 1, time_s, d)

\* "for i in range(8)" of the ring, from sub-solid i on
RECURSIVE DrawRing(_, _, _)
DrawRing(m, i, time_s) ==
    IF i >= RING_COUNT THEN m
    ELSE LET angle == i * 45 + time_s * 30
             m1 == GlTranslatef(GlPushMatrix(m), CosDeg(angle) * 5, 0, SinDeg(angle) * 5)
             m2 == GlRotatef(m1, angle + time_s * 50, 1, 1, 0)
         IN  DrawRing(GlPopMatrix(DrawCube(m2, "ring")), i + 1, time_s)

RenderScene(m, time_s, d, rs) ==
    LET m1 == UpdateStars(m, d, rs)
        m2 == DrawFloorGrid(DrawStarfield(m1))
        m3 == DrawObjects(m2, 1, time_s, d)
        m4 == GlTranslatef(GlPushMatrix(m3), 0, 0, -25)
        m5 == GlRotatef(GlRotatef(m4, time_s * 20, 0, 1, 0), time_s * 10, 1, 0, 0)
    IN  GlPopMatrix(DrawRing(m5, 0, time_s))

\* render_frame whose glScissor calls both name the left half
DemoEyeScissorLeftHalf(m, eye, x, time_s, d, rs) ==
    LET m1 == GlViewport(AtEye(m, eye), x, 0, m.cfg.eye_width, m.cfg.height)
        m2 == GlScissor(m1, 0, 0, m.cfg.eye_width, m.cfg.height)
        m3 == SetStereoProjection(GlClear(m2, "eye"), eye)
    IN  GlPopMatrix(RenderScene(GlPushMatrix(m3), time_s, d, rs))

\* the code of one eye in Demo3DScene.render_frame
DemoEye(m, eye, x, time_s, d, rs) ==
    LET m1 == GlViewport(AtEye(m, eye), x, 0, m.cfg.eye_width, m.cfg.height)
        m2 == GlScissor(m1, x, 0, m.cfg.eye_width, m.cfg.height)
        m3 == SetStereoProjection(GlClear(m2, "eye"), eye)
    IN  GlPopMatrix(RenderScene(GlPushMatrix(m3), time_s, d, rs))

\* render_frame before the first eye: clear the whole surface, enable the scissor test
BeginFrame(m) == GlEnable(GlClear(m, "full"), "SCISSOR_TEST")

\* render_frame that presents without glDisable(GL_SCISSOR_TEST)
EndFrameScissorLeftOn(m) == SwapWindow(AtEye(m, "none"))

\* render_frame after the second eye: disable the scissor test and present
EndFrame(m) == SwapWindow(GlDisable(AtEye(m, "none"), "SCISSOR_TEST"))

----------------------------------------------------------------------------
(* VitureRenderer: camera and scene *)

SetProjection(m, eye) ==
    LET m1 == GlLoadIdentity(GlMatrixMode(m, "PROJECTION"))
        eye_offset == IF eye = "left" THEN -(m.cfg.ipd \div 2) ELSE m.cfg.ipd \div 2
        top == m.cfg.near * TanHalf(m.cfg.fov)
        bottom == -top
        a == (m.cfg.eye_width * TanHalf(m.cfg.fov) * m.cfg.near) \div m.cfg.height
        b == a - eye_offset * m.cfg.near * 50
        c == -a - eye_offset * m.cfg.near * 50
        left_f == IF eye = "left" THEN c ELSE -b
        right_f == IF eye = "left" THEN b ELSE -c
        m2 == GlFrustum(m1, left_f, right_f, bottom, top, m.cfg.near, m.cfg.far)
        m3 == GlLoadIdentity(GlMatrixMode(m2, "MODELVIEW"))
    IN  Emit(GlTranslatef(m3, -eye_offset, 0, 0), "set_projection", eye)

SbsRenderScene(m, time_s) ==
    DrawCube(GlRotatef(GlTranslatef(m, 0, 0, -5), time_s * 50, 1, 1, 0), "object")

DrawTestPattern(m) ==
    LET m1 == GlLoadIdentity(GlMatrixMode(m, "PROJECTION"))
        m2 == GlOrtho(m1, 0, 1, 0, 1, -1, 1)
        m3 == GlLoadIdentity(GlMatrixMode(m2, "MODELVIEW"))
    IN  Emit(Emit(m3, "draw_lines", "grid"), "draw_lines", "cross")

\* the code of one eye in VitureRenderer.render_frame
SbsEye(m, eye, x, time_s, tp) ==
    LET m1 == GlViewport(AtEye(m, eye), x, 0, m.cfg.eye_width, m.cfg.height)
        m2 == GlClear(GlScissor(m1, x, 0, m.cfg.eye_width, m.cfg.height), "eye")
    IN  IF tp THEN DrawTestPattern(m2)
        ELSE GlPopMatrix(SbsRenderScene(GlPushMatrix(SetProjection(m2, eye)), time_s))

----------------------------------------------------------------------------
(* handle_events: the whole SDL_PollEvent loop, over the queued events evs *)

\* handle_events whose K_MINUS branch forgets the max(0.02, ...)
DemoHandleEventNoClamp(st, e) ==
    IF e \in {"SDL_QUIT", "K_ESCAPE", "K_q"} THEN [st EXCEPT !.running = FALSE]
    ELSE IF e \in {"K_PLUS", "K_EQUALS"} THEN [st EXCEPT !.ipd = st.ipd + IPD_STEP]
    ELSE IF e = "K_MINUS" THEN [st EXCEPT !.ipd = st.ipd - IPD_STEP]
    ELSE st

DemoHandleEvent(st, e) ==
    IF e = "SDL_QUIT" THEN [st EXCEPT !.running = FALSE]
    ELSE IF e \in {"K_ESCAPE", "K_q"} THEN [st EXCEPT !.running = FALSE]
    ELSE IF e \in {"K_PLUS", "K_EQUALS"} THEN [st EXCEPT !.ipd = st.ipd + IPD_STEP]
    ELSE IF e = "K_MINUS" THEN [st EXCEPT !.ipd = Max(IPD_MIN, st.ipd - IPD_STEP)]
    ELSE st

SbsHandleEvent(st, e) ==
    IF e = "SDL_QUIT" THEN [st EXCEPT !.running = FALSE]
    ELSE IF e = "K_ESCAPE" THEN [st EXCEPT !.running = FALSE]
    ELSE IF e = "K_q" THEN [st EXCEPT !.running = FALSE]
    ELSE st

HandleEvent(p, st, e) == IF p = "demo" THEN DemoHandleEvent(st, e) ELSE SbsHandleEvent(st, e)

RECURSIVE HandleEventsFrom(_, _, _, _)
HandleEventsFrom(p, st, evs, i) ==
    IF i > Len(evs) THEN st
    ELSE HandleEventsFrom(p, HandleEvent(p, st, evs[i]), evs, i + 1)

----------------------------------------------------------------------------
(* main(), the constructor and run() as a state machine                       *)
(*   pc: "main" -> "loop" -> "clock" -> "render" -> "left" -> "right" ->       *)
(*       "present" -> "loop" ... -> "finally" -> "done"                         *)
(*       "main" -> "except" -> "finally" -> "done"                              *)
(*   with the frame counter followed: "present" -> "count" -> "loop"            *)
(*   with a GL call raising: "render", "left", "right", "present" -> "except"   *)

NoConfig == [width |-> 0, height |-> 0, eye_width |-> 0, ipd |-> 0, near |-> 0,
             far |-> 0, fov |-> 0]

\* viture_direct_gl is not the program that runs
NoDrm ==
    [connectors |-> <<>>, list_modes |-> FALSE, res_null |-> FALSE, i |-> 0,
     hdmi_connector |-> 0, frees |-> <<>>, res_frees |-> 0, fd_opens |-> 0,
     fd_closes |-> 0, path |-> "none"]

\* no FPS observation emitted yet
NoEmit == [fresh |-> FALSE, tested |-> -1, set |-> -1, window |-> -1, elapsed |-> -1,
           frames |-> -1, counted |-> -1]

NoHist ==
    [polled |-> FALSE, rendered |-> FALSE, reports |-> 0, cleanups |-> 0,
     status |-> 0, exit |-> -1, init_failure |-> "none",
     events |-> <<>>, before |-> [running |-> FALSE, ipd |-> 0],
     quit_polled |-> FALSE, polls_after_quit |-> 0, frames_after_quit |-> 0,
     ipd_writer |-> "none",
     render_failure |-> FALSE, calls_at_failure |-> 0,
     frames |-> 0, since |-> 0, emit |-> NoEmit, prev_set |-> -1]

Init ==
    /\ prog \in {"demo", "sbs"}
    /\ pc = "main"
    /\ test_pattern \in (IF prog = "sbs" THEN BOOLEAN ELSE {FALSE})
    /\ cfg = NoConfig
    /\ running = FALSE
    /\ stars = <<>>
    /\ objects = <<>>
    /\ gl = NoGl
    /\ now = 0
    /\ dt = 0
    /\ log = <<>>
    /\ constructed = FALSE
    /\ frame_count = 0
    /\ fps_time = 0
    /\ drm = NoDrm
    /\ hist = NoHist

\* Demo3DScene(): the fields, the scene, then _init_sdl and _init_gl; f is the
\* SDL call that fails, or "none"
DemoConstruct ==
    /\ pc = "main"
    /\ prog = "demo"
    /\ \E f \in InitFailures, sd \in [StarIndex -> StarDraws],
          sz \in [StarIndex -> StarInitZ], od \in ObjectDraws :
        /\ cfg' = DemoConfig
        /\ running' = TRUE
        /\ stars' = [i \in StarIndex |-> StarInit(sd[i], sz[i])]
        /\ objects' = DemoObjects(od)
        /\ IF f = "none"
           THEN /\ gl' = InitGl(DemoConfig)
                /\ constructed' = TRUE
                /\ pc' = "loop"
                /\ hist' = hist
           ELSE /\ gl' = gl
                /\ constructed' = FALSE
                /\ pc' = "except"
                /\ hist' = [hist EXCEPT !.init_failure = f]
    /\ UNCHANGED <<drm, prog, test_pattern, frame_count, fps_time, now, dt, log>>

\* VitureRenderer(fullscreen=...)
SbsConstruct ==
    /\ pc = "main"
    /\ prog = "sbs"
    /\ \E f \in InitFailures :
        /\ cfg' = SbsConfig
        /\ running' = TRUE
        /\ IF f = "none"
           THEN /\ gl' = InitGl(SbsConfig)
                /\ constructed' = TRUE
                /\ pc' = "loop"
                /\ hist' = hist
           ELSE /\ gl' = gl
                /\ constructed' = FALSE
                /\ pc' = "except"
                /\ hist' = [hist EXCEPT !.init_failure = f]
    /\ UNCHANGED <<drm, prog, test_pattern, frame_count, fps_time, stars, objects, now, dt, log>>

\* VitureRenderer(width, height, fullscreen=...) called with a size of the caller's
SbsConstructSized ==
    /\ pc = "main"
    /\ prog = "sbs"
    /\ \E f \in InitFailures, size \in SurfaceSizes :
        /\ cfg' = SbsConfigFor(size[1], size[2])
        /\ running' = TRUE
        /\ IF f = "none"
           THEN /\ gl' = InitGl(SbsConfigFor(size[1], size[2]))
                /\ constructed' = TRUE
                /\ pc' = "loop"
                /\ hist' = hist
           ELSE /\ gl' = gl
                /\ constructed' = FALSE
                /\ pc' = "except"
                /\ hist' = [hist EXCEPT !.init_failure = f]
    /\ UNCHANGED <<drm, prog, test_pattern, frame_count, fps_time, stars, objects, now, dt, log>>

\* a run loop that leaves as soon as handle_events has cleared self.running
HandleEventsThenBreak ==
    /\ pc = "loop"
    /\ running
    /\ \E evs \in EventSeqs :
        LET st == HandleEventsFrom(prog, [running |-> running, ipd |-> cfg.ipd], evs, 1)
        IN  /\ st.ipd <= MaxIpd
            /\ running' = st.running
            /\ cfg' = [cfg EXCEPT !.ipd = st.ipd]
            /\ pc' = IF st.running THEN "clock" ELSE "finally"
            /\ hist' = [hist EXCEPT
                 !.polled = TRUE,
                 !.events = IF st.running THEN evs ELSE <<>>,
                 !.before = IF st.running THEN [running |-> running, ipd |-> cfg.ipd] ELSE @,
                 !.quit_polled = @ \/ ~st.running,
                 !.ipd_writer = IF st.ipd # cfg.ipd THEN "handle_events" ELSE @]
    /\ log' = <<>>
    /\ UNCHANGED <<drm, prog, test_pattern, frame_count, fps_time, stars, objects, gl, now, dt, constructed>>

\* "while self.running:" found true, then self.handle_events()
HandleEvents ==
    /\ pc = "loop"
    /\ running
    /\ \E evs \in EventSeqs :
        LET st == HandleEventsFrom(prog, [running |-> running, ipd |-> cfg.ipd], evs, 1)
        IN  /\ st.ipd <= MaxIpd
            /\ running' = st.running
            /\ cfg' = [cfg EXCEPT !.ipd = st.ipd]
            /\ hist' = [hist EXCEPT
                 !.polled = TRUE,
                 !.events = evs,
                 !.before = [running |-> running, ipd |-> cfg.ipd],
                 !.polls_after_quit = IF hist.quit_polled THEN @ + 1 ELSE @,
                 !.quit_polled = @ \/ ~st.running,
                 !.ipd_writer = IF st.ipd # cfg.ipd THEN "handle_events" ELSE @]
    /\ log' = <<>>
    /\ pc' = "clock"
    /\ UNCHANGED <<drm, prog, test_pattern, frame_count, fps_time, stars, objects, gl, now, dt, constructed>>

\* current_time = time.time(); dt = current_time - last_time; last_time = current_time
ReadClock ==
    /\ pc = "clock"
    /\ \E d \in DtValues :
        /\ now + d <= MaxTime
        /\ now' = now + d
        /\ dt' = IF prog = "demo" THEN d ELSE 0
    /\ hist' = [hist EXCEPT !.events = <<>>, !.before = NoHist.before]
    /\ pc' = "render"
    /\ UNCHANGED <<drm, prog, test_pattern, frame_count, fps_time, cfg, running, stars, objects, gl, log,
                   constructed>>

Machine == [gl |-> gl, cfg |-> cfg, stars |-> stars, objects |-> objects,
            log |-> log, eye |-> "none"]

\* the effect of a part of render_frame that ends in machine state m
Rendered(m, next) ==
    /\ gl' = m.gl
    /\ cfg' = m.cfg
    /\ stars' = m.stars
    /\ objects' = m.objects
    /\ log' = m.log
    /\ hist' = [hist EXCEPT
         !.rendered = TRUE,
         !.frames_after_quit = IF hist.quit_polled /\ next = "loop" THEN @ + 1 ELSE @,
         !.since = IF next = "count" THEN @ + 1 ELSE @,
         !.frames = IF next = "count" THEN @ + 1 ELSE @,
         !.ipd_writer = IF m.cfg.ipd # cfg.ipd THEN "render_frame" ELSE @]
    /\ pc' = next
    /\ UNCHANGED <<drm, prog, test_pattern, frame_count, fps_time, running, now, dt, constructed>>

\* render_frame is entered: the full clear and glEnable(GL_SCISSOR_TEST)
RenderBegin ==
    /\ pc = "render"
    /\ Rendered(BeginFrame(Machine), "left")

\* Demo3DScene.render_frame, "# Left eye"
DemoLeftEye ==
    /\ pc = "left"
    /\ prog = "demo"
    /\ \E rs \in [StarIndex -> StarDraws] :
        Rendered(DemoEye(Machine, "left", 0, now, dt, rs), "right")

\* Demo3DScene.render_frame, "# Right eye"
DemoRightEye ==
    /\ pc = "right"
    /\ prog = "demo"
    /\ \E rs \in [StarIndex -> StarDraws] :
        Rendered(DemoEye(Machine, "right", cfg.eye_width, now, dt, rs), "present")

\* VitureRenderer.render_frame, "# Left eye (left half of screen)"
SbsLeftEye ==
    /\ pc = "left"
    /\ prog = "sbs"
    /\ Rendered(SbsEye(Machine, "left", 0, now, test_pattern), "right")

\* VitureRenderer.render_frame, "# Right eye (right half of screen)"
SbsRightEye ==
    /\ pc = "right"
    /\ prog = "sbs"
    /\ Rendered(SbsEye(Machine, "right", cfg.eye_width, now, test_pattern), "present")

\* glDisable(GL_SCISSOR_TEST); SDL_GL_SwapWindow: render_frame returns
Present ==
    /\ pc = "present"
    /\ Rendered(EndFrame(Machine), "loop")

\* the same, with run() followed through its frame counter afterwards, for the
\* first MaxFrames iterations of the loop
PresentCounted ==
    /\ pc = "present"
    /\ hist.frames < MaxFrames
    /\ Rendered(EndFrame(Machine), "count")

\* a run loop that emits the observation in every iteration
DemoCountFrameEveryFrame ==
    /\ pc = "count"
    /\ prog = "demo"
    /\ frame_count' = 0
    /\ fps_time' = now
    /\ hist' = [hist EXCEPT
         !.since = 0,
         !.prev_set = hist.emit.set,
         !.emit = [fresh |-> TRUE, tested |-> now, set |-> now, window |-> fps_time,
                   elapsed |-> now - fps_time, frames |-> frame_count + 1,
                   counted |-> hist.since]]
    /\ pc' = "loop"
    /\ UNCHANGED <<drm, prog, test_pattern, cfg, running, stars, objects, gl, now, dt, log,
                   constructed>>

\* Demo3DScene.run after render_frame: frame_count += 1, and the FPS line when the
\* window is over; every time is the iteration's current_time
DemoCountFrame ==
    /\ pc = "count"
    /\ prog = "demo"
    /\ IF now - fps_time >= FPS_WINDOW
       THEN /\ frame_count' = 0
            /\ fps_time' = now
            /\ hist' = [hist EXCEPT
                 !.since = 0,
                 !.prev_set = hist.emit.set,
                 !.emit = [fresh |-> TRUE, tested |-> now, set |-> now,
                           window |-> fps_time, elapsed |-> now - fps_time,
                           frames |-> frame_count + 1, counted |-> hist.since]]
       ELSE /\ frame_count' = frame_count + 1
            /\ fps_time' = fps_time
            /\ hist' = [hist EXCEPT !.emit.fresh = FALSE]
    /\ pc' = "loop"
    /\ UNCHANGED <<drm, prog, test_pattern, cfg, running, stars, objects, gl, now, dt, log,
                   constructed>>

\* VitureRenderer.run after render_frame: frame_count += 1, and the FPS line when the
\* window is over; the test, the rate and the new fps_time each read time.time()
SbsCountFrame ==
    /\ pc = "count"
    /\ prog = "sbs"
    /\ \E d1 \in DtValues :
        LET t1 == now + d1
        IN  /\ t1 <= MaxTime
            /\ IF t1 - fps_time >= FPS_WINDOW
               THEN \E d2, d3 \in DtValues :
                    LET t2 == t1 + d2
                        t3 == t2 + d3
                    IN  /\ t3 <= MaxTime
                        /\ frame_count' = 0
                        /\ fps_time' = t3
                        /\ now' = t3
                        /\ hist' = [hist EXCEPT
                             !.since = 0,
                             !.prev_set = hist.emit.set,
                             !.emit = [fresh |-> TRUE, tested |-> t1, set |-> t3,
                                       window |-> fps_time, elapsed |-> t2 - fps_time,
                                       frames |-> frame_count + 1,
                                       counted |-> hist.since]]
               ELSE /\ frame_count' = frame_count + 1
                    /\ fps_time' = fps_time
                    /\ now' = t1
                    /\ hist' = [hist EXCEPT !.emit.fresh = FALSE]
    /\ pc' = "loop"
    /\ UNCHANGED <<drm, prog, test_pattern, cfg, running, stars, objects, gl, dt, log,
                   constructed>>

\* a run loop that catches what render_frame raises and goes on with the next iteration
RenderFailsRetried ==
    /\ pc \in {"render", "left", "right", "present"}
    /\ hist' = [hist EXCEPT !.render_failure = TRUE, !.calls_at_failure = Len(log)]
    /\ pc' = "loop"
    /\ UNCHANGED <<drm, prog, test_pattern, frame_count, fps_time, cfg, running, stars,
                   objects, gl, now, dt, log, constructed>>

\* a GL call of render_frame raises: the exception leaves render_frame and run(),
\* which have no handler, and arrives at the try of main
RenderFails ==
    /\ pc \in {"render", "left", "right", "present"}
    /\ hist' = [hist EXCEPT !.render_failure = TRUE, !.calls_at_failure = Len(log)]
    /\ pc' = "except"
    /\ UNCHANGED <<drm, prog, test_pattern, frame_count, fps_time, cfg, running, stars,
                   objects, gl, now, dt, log, constructed>>

\* "while self.running:" found false: run() returns
ExitLoop ==
    /\ pc = "loop"
    /\ ~running
    /\ pc' = "finally"
    /\ UNCHANGED <<drm, prog, test_pattern, frame_count, fps_time, cfg, running, stars, objects, gl, now, dt, log,
                   constructed, hist>>

\* "except Exception as e:" of main: print the error and the traceback;
\* viture_sbs_renderer then calls sys.exit(1), viture_3d_demo does not
Except ==
    /\ pc = "except"
    /\ hist' = [hist EXCEPT !.reports = @ + 1,
                            !.status = IF prog = "sbs" THEN 1 ELSE 0]
    /\ pc' = "finally"
    /\ UNCHANGED <<drm, prog, test_pattern, frame_count, fps_time, cfg, running, stars, objects, gl, now, dt, log,
                   constructed>>

\* "finally:" of main: cleanup() when the object was bound; then the process ends
Finally ==
    /\ pc = "finally"
    /\ hist' = [hist EXCEPT !.cleanups = IF constructed THEN @ + 1 ELSE @,
                            !.exit = hist.status]
    /\ pc' = "done"
    /\ UNCHANGED <<drm, prog, test_pattern, frame_count, fps_time, cfg, running, stars, objects, gl, now, dt, log,
                   constructed>>

Next ==
    \/ DemoConstruct
    \/ SbsConstruct
    \/ HandleEvents
    \/ ReadClock
    \/ RenderBegin
    \/ DemoLeftEye
    \/ DemoRightEye
    \/ SbsLeftEye
    \/ SbsRightEye
    \/ Present
    \/ ExitLoop
    \/ Except
    \/ Finally

Spec == Init /\ [][Next]_vars

\* VitureRenderer constructed by a caller with a surface size of its choice and run
SizedInit == Init /\ prog = "sbs"

SizedNext ==
    \/ SbsConstructSized
    \/ HandleEvents
    \/ ReadClock
    \/ RenderBegin
    \/ SbsLeftEye
    \/ SbsRightEye
    \/ Present
    \/ ExitLoop
    \/ Except
    \/ Finally

SizedSpec == SizedInit /\ [][SizedNext]_vars

\* main() with the GL calls of render_frame able to raise
FailNext ==
    \/ DemoConstruct
    \/ SbsConstruct
    \/ HandleEvents
    \/ ReadClock
    \/ RenderBegin
    \/ DemoLeftEye
    \/ DemoRightEye
    \/ SbsLeftEye
    \/ SbsRightEye
    \/ Present
    \/ RenderFails
    \/ ExitLoop
    \/ Except
    \/ Finally

FailSpec == Init /\ [][FailNext]_vars

\* main() with run() followed through its frame counter and FPS line, which Spec
\* leaves out (there frame_count and fps_time stay as run() initialises them)
TimedNext ==
    \/ DemoConstruct
    \/ SbsConstruct
    \/ HandleEvents
    \/ ReadClock
    \/ RenderBegin
    \/ DemoLeftEye
    \/ DemoRightEye
    \/ SbsLeftEye
    \/ SbsRightEye
    \/ PresentCounted
    \/ DemoCountFrame
    \/ SbsCountFrame
    \/ ExitLoop
    \/ Except
    \/ Finally

TimedSpec == Init /\ [][TimedNext]_vars

----------------------------------------------------------------------------
(* Reading the log of a frame *)

DrawOps == {"draw_starfield", "draw_floor_grid", "draw_cube", "draw_lines"}

Entries(eye, ops) == {i \in DOMAIN log : log[i].eye = eye /\ log[i].op \in ops}

\* render_frame has returned: the log holds a whole frame
FrameDone == pc = "loop" /\ log # <<>>

\* the animated state of a solid body
Pose(o) == [rot_x |-> o.rot_x, rot_y |-> o.rot_y, y_offset |-> o.y_offset, z |-> o.z]

\* the particles an eye was drawn with (at its draw_starfield) and the solid bodies it
\* was drawn with (at its draw_cube of the floating objects)
StarsDrawn(eye) == {log[i].stars : i \in Entries(eye, {"draw_starfield"})}

PosesDrawn(eye) ==
    {[k \in DOMAIN log[i].objects |-> Pose(log[i].objects[k])] :
        i \in {j \in Entries(eye, {"draw_cube"}) : log[j].what = "object"}}

----------------------------------------------------------------------------
(* C1: in every frame of the demo the right eye is drawn with the same particle *)
(* state and the same solid-body state as the left eye, and over the iteration  *)
(* every particle has made exactly one update(dt) step (its depth decreased by   *)
(* speed*dt*30 once, with the respawn rule applied once).                        *)
C1_SceneAdvancedOncePerFrame ==
    (FrameDone /\ prog = "demo") =>
        /\ StarsDrawn("left") = StarsDrawn("right")
        /\ PosesDrawn("left") = PosesDrawn("right")
        /\ \A i \in DOMAIN stars :
             \E r \in StarDraws : stars[i] = StarUpdate(log[1].stars[i], dt, r)

(* C2: every particle's depth is in (0, Z_MAX], in every state and in every     *)
(* state a draw call saw.                                                        *)
C2_StarDepthInRange ==
    /\ \A i \in DOMAIN stars : 0 < stars[i].z /\ stars[i].z <= Z_MAX
    /\ \A k \in DOMAIN log : \A i \in DOMAIN log[k].stars :
         0 < log[k].stars[i].z /\ log[k].stars[i].z <= Z_MAX

\* a frame with dt > 0 in which a particle crossed the threshold and was respawned
C2_Witness ==
    /\ FrameDone /\ prog = "demo" /\ dt > 0
    /\ \E i \in DOMAIN stars : stars[i].z > log[1].stars[i].z

----------------------------------------------------------------------------
(* The IPD after a sequence of intents, as the claim states it: an increase adds *)
(* the step, a decrease subtracts it but never goes below the minimum.            *)
RECURSIVE IpdAfter(_, _, _)
IpdAfter(ipd, evs, i) ==
    IF i > Len(evs) THEN ipd
    ELSE IF evs[i] \in {"K_PLUS", "K_EQUALS"} THEN IpdAfter(ipd + IPD_STEP, evs, i + 1)
    ELSE IF evs[i] = "K_MINUS"
         THEN IpdAfter(IF ipd - IPD_STEP < IPD_MIN THEN IPD_MIN ELSE ipd - IPD_STEP, evs, i + 1)
    ELSE IpdAfter(ipd, evs, i + 1)

(* C3: in the demo the IPD is never below the minimum (so it is positive), and   *)
(* after each handle_events call it is the IPD before the call with every         *)
(* IncreaseIPD adding exactly the step and every DecreaseIPD taking               *)
(* max(minimum, IPD - step).                                                      *)
C3_IpdClamped ==
    (prog = "demo" /\ pc \notin {"main", "except"}) =>
        /\ cfg.ipd >= IPD_MIN
        /\ cfg.ipd > 0
        /\ pc = "clock" => cfg.ipd = IpdAfter(hist.before.ipd, hist.events, 1)

\* a DecreaseIPD polled with the IPD already at the minimum
C3_Witness ==
    /\ prog = "demo" /\ pc = "clock"
    /\ hist.events = <<"K_MINUS">>
    /\ hist.before.ipd = IPD_MIN
    /\ cfg.ipd = IPD_MIN

----------------------------------------------------------------------------
EyeRect(eye) ==
    IF eye = "left" THEN <<0, 0, cfg.eye_width, cfg.height>>
    ELSE <<cfg.eye_width, 0, cfg.eye_width, cfg.height>>

(* C4: at every draw and every per-eye clear issued for an eye, in both          *)
(* renderers, the scissor test is enabled, the scissor rectangle is that eye's    *)
(* half of the surface, and it equals the viewport.                               *)
C4_ScissorIsolation ==
    \A eye \in {"left", "right"} : \A i \in Entries(eye, DrawOps \cup {"clear"}) :
        /\ log[i].scissor_test
        /\ log[i].scissor = EyeRect(eye)
        /\ log[i].scissor = log[i].viewport

\* a whole frame in which both eyes cleared their half and drew
C4_Witness ==
    /\ FrameDone
    /\ \A eye \in {"left", "right"} :
         Entries(eye, DrawOps) # {} /\ Entries(eye, {"clear"}) # {}

----------------------------------------------------------------------------
QuitEvents == {"SDL_QUIT", "K_ESCAPE", "K_q"}

\* the log is a whole frame: both eyes drawn, then presented
FrameComplete ==
    /\ log # <<>>
    /\ log[Len(log)].op = "swap"
    /\ Entries("left", DrawOps) # {}
    /\ Entries("right", DrawOps) # {}

(* C5: a quit intent sets running to False and nothing else does; after it was   *)
(* polled running stays False, handle_events is not called again, and exactly     *)
(* the frame of that iteration is composed and presented before run() returns.    *)
C5_CooperativeCancel ==
    /\ pc = "clock" =>
         (running <=> (\A i \in DOMAIN hist.events : hist.events[i] \notin QuitEvents))
    /\ (pc \notin {"main", "except"} /\ ~hist.quit_polled) => running
    /\ hist.quit_polled => ~running
    /\ hist.polls_after_quit = 0
    /\ hist.frames_after_quit <= 1
    /\ (hist.quit_polled /\ pc \in {"finally", "done"}) =>
         (hist.frames_after_quit = 1 /\ FrameComplete)

\* run() has returned after a quit intent, the last frame presented
C5_Witness ==
    /\ pc = "done" /\ hist.quit_polled
    /\ hist.frames_after_quit = 1 /\ FrameComplete

----------------------------------------------------------------------------
Cameras == {i \in DOMAIN log : log[i].op = "set_projection"}

(* C6: the IPD is written by handle_events only; it does not change while a      *)
(* frame is rendered, and both eye cameras of a frame are placed from the IPD     *)
(* the frame started with: the left camera at -IPD/2, the right one at +IPD/2.    *)
C6_IpdAtomicPerFrame ==
    /\ hist.ipd_writer \in {"none", "handle_events"}
    /\ pc \in {"left", "right", "present"} => cfg.ipd = log[1].cfg.ipd
    /\ \A i \in Cameras :
         /\ log[i].cfg.ipd = log[1].cfg.ipd
         /\ log[i].mv = << <<"translate",
                             IF log[i].eye = "left" THEN log[1].cfg.ipd \div 2
                             ELSE -(log[1].cfg.ipd \div 2), 0, 0>> >>

\* a frame rendered with both cameras after handle_events changed the IPD
C6_Witness ==
    /\ FrameDone /\ prog = "demo"
    /\ hist.ipd_writer = "handle_events"
    /\ cfg.ipd # DemoConfig.ipd
    /\ \E i, j \in Cameras : log[i].eye = "left" /\ log[j].eye = "right"

----------------------------------------------------------------------------
(* C7: when SDL_Init, SDL_CreateWindow or SDL_GL_CreateContext fails, the        *)
(* failure is reported once, no event is polled, no frame is rendered and the     *)
(* process ends with a non-zero status, for both entry points.                    *)
C7_InitFailureFatal ==
    (pc = "done" /\ hist.init_failure # "none") =>
        /\ hist.reports = 1
        /\ ~hist.polled
        /\ ~hist.rendered
        /\ hist.exit # 0

----------------------------------------------------------------------------
\* every value of the sine table, and the two ends of the sine's range
SineValues == {SinTable[k] : k \in DOMAIN SinTable} \cup {-1000, 1000}

DepthInRange(o, z) ==
    /\ 1000 * (o.z_base - o.z_amplitude) <= z
    /\ z <= 1000 * (o.z_base + o.z_amplitude)

\* the solid bodies of the current state and of every state a GL call saw
ObjectsSeen ==
    {objects[k] : k \in DOMAIN objects}
        \cup UNION {{log[i].objects[k] : k \in DOMAIN log[i].objects} : i \in DOMAIN log}

(* C8: every solid body's depth is within [z_base - z_amplitude,                 *)
(* z_base + z_amplitude], whatever value in [-1, 1] the sine takes; the demo's    *)
(* cube stays within [3, 27].                                                     *)
C8_ObjectDepthInRange ==
    \A o \in ObjectsSeen :
        /\ DepthInRange(o, o.z)
        /\ \A sine \in SineValues : DepthInRange(o, ObjectDepth(o, sine))
        /\ o.type = "cube" => (3000 <= o.z /\ o.z <= 27000)

\* the cube after an update that moved it off its base depth
C8_Witness ==
    /\ FrameDone /\ prog = "demo"
    /\ \E k \in DOMAIN objects :
         objects[k].has_y_offset /\ objects[k].z # 1000 * objects[k].z_base

----------------------------------------------------------------------------
(* C9: in the demo both eyes get the same symmetric perspective projection       *)
(* (fov, aspect, near, far of the configuration) and the view of an eye is one    *)
(* translation, (+IPD/2, 0, 0) for the left eye and (-IPD/2, 0, 0) for the right  *)
(* eye: no vertical and no depth component.                                       *)
C9_ParallelAxis ==
    prog = "demo" =>
        \A i \in Cameras :
            /\ log[i].proj =
                 << <<"perspective", log[i].cfg.fov,
                      <<log[i].cfg.eye_width, log[i].cfg.height>>,
                      log[i].cfg.near, log[i].cfg.far>> >>
            /\ Len(log[i].mv) = 1
            /\ log[i].mv[1][1] = "translate"
            /\ log[i].mv[1][2] =
                 (IF log[i].eye = "left" THEN log[i].cfg.ipd ELSE -log[i].cfg.ipd) \div 2
            /\ log[i].mv[1][3] = 0
            /\ log[i].mv[1][4] = 0
            /\ \A j \in Cameras : log[j].proj = log[i].proj

\* a demo frame with both cameras installed
C9_Witness ==
    /\ FrameDone /\ prog = "demo"
    /\ \E i, j \in Cameras :
         /\ log[i].eye = "left" /\ log[j].eye = "right"
         /\ log[i].mv # log[j].mv

----------------------------------------------------------------------------
\* the matrices the camera of program p computes for (c, eye) in a fresh context
FreshCamera(p, c, eye) ==
    LET m0 == [gl |-> InitGl(c), cfg |-> c, stars |-> <<>>, objects |-> <<>>,
               log |-> <<>>, eye |-> eye]
    IN  (IF p = "demo" THEN SetStereoProjection(m0, eye) ELSE SetProjection(m0, eye)).gl.mat

(* C10: computing an eye's camera leaves the configuration as it was, and the    *)
(* projection and view it installs are those the same (config, eye) give in a     *)
(* fresh context, whatever the context held from earlier eyes and frames; only    *)
(* the IPD of the configuration ever changes after construction.                  *)
C10_CameraPure ==
    /\ \A i \in Cameras :
         /\ log[i].cfg = log[i - 1].cfg
         /\ log[i].proj = FreshCamera(prog, log[i].cfg, log[i].eye).PROJECTION
         /\ log[i].mv = FreshCamera(prog, log[i].cfg, log[i].eye).MODELVIEW
    /\ pc \notin {"main", "except"} =>
         [cfg EXCEPT !.ipd = 0] =
            [(IF prog = "demo" THEN DemoConfig ELSE SbsConfig) EXCEPT !.ipd = 0]
    /\ hist.ipd_writer # "render_frame"

\* a frame whose cameras were computed in a context that still held the matrices
\* of the frame before
C10_Witness ==
    /\ FrameDone
    /\ log[1].proj # <<>>
    /\ \E i, j \in Cameras : log[i].eye = "left" /\ log[j].eye = "right"

----------------------------------------------------------------------------
\* the depth of star s after the decrement of a tick of d seconds
Decremented(s, d) == s.z - (s.speed * d * DEPTH_RATE) \div 10

\* what a tick of d seconds may make of star s: respawned when the decremented depth
\* is below 1, else only the depth moved
TickRule(s, d, t) ==
    IF Decremented(s, d) < 1
    THEN /\ t.z = Z_MAX
         /\ -50 <= t.x /\ t.x <= 50
         /\ -30 <= t.y /\ t.y <= 30
         /\ 5 <= t.speed /\ t.speed <= 20
    ELSE /\ t.x = s.x /\ t.y = s.y /\ t.speed = s.speed
         /\ t.z = Decremented(s, d)

\* stars below the threshold, at it, at Z_MAX, and on both sides of the depth a tick
\* of one second takes to the threshold at the slowest and at the fastest speed
StarSamples ==
    {[x |-> r.x, y |-> r.y, z |-> z, speed |-> r.speed] :
        r \in StarDraws, z \in {0, 1, 15, 16, 60, 61, Z_MAX}}

(* C11: every tick of every particle follows the respawn rule: when the depth     *)
(* after the decrement speed*dt*30 is below 1 the particle has z = Z_MAX, x in     *)
(* [-50, 50], y in [-30, 30] and speed in [0.5, 2.0] after the tick; otherwise the *)
(* tick leaves x, y and speed as they were. It holds for the tick each eye's       *)
(* render made (the particles at the eye's clear against those at its starfield    *)
(* draw) and for update() on any particle, one already below the threshold          *)
(* included (update() reads nothing but its arguments, so that part is evaluated    *)
(* once, before construction).                                                      *)
C11_StarRespawn ==
    /\ \A eye \in {"left", "right"} :
         \A i \in Entries(eye, {"clear"}), j \in Entries(eye, {"draw_starfield"}) :
            \A k \in DOMAIN log[i].stars : TickRule(log[i].stars[k], dt, log[j].stars[k])
    /\ pc = "main" =>
         \A s \in StarSamples, d \in DtValues, r \in StarDraws :
            TickRule(s, d, StarUpdate(s, d, r))

\* an eye's tick respawned a particle, and a tick of the same frame left one in place
C11_Witness ==
    /\ FrameDone /\ prog = "demo" /\ dt > 0
    /\ \E i \in Entries("left", {"clear"}), j \in Entries("left", {"draw_starfield"}) :
         \E k \in DOMAIN log[i].stars :
            /\ Decremented(log[i].stars[k], dt) < 1
            /\ log[j].stars[k].z = Z_MAX
    /\ \E i \in Entries("right", {"clear"}), j \in Entries("right", {"draw_starfield"}) :
         \E k \in DOMAIN log[i].stars :
            /\ Decremented(log[i].stars[k], dt) >= 1
            /\ log[j].stars[k].x = log[i].stars[k].x

----------------------------------------------------------------------------
\* the step of render_frame a logged call belongs to: the full clear, the left eye,
\* the right eye, the present
Phase(e) ==
    IF e.op = "swap" THEN 3
    ELSE IF e.eye = "left" THEN 1
    ELSE IF e.eye = "right" THEN 2
    ELSE 0

EyeCalls(eye) == {i \in DOMAIN log : log[i].eye = eye}

\* the calls of one eye, in order: its half set as viewport and scissor and cleared,
\* then its camera (the test pattern of viture_sbs_renderer installs none), then draws
EyeHandled(eye) ==
    \A i \in EyeCalls(eye) :
        IF \A j \in EyeCalls(eye) : i <= j
        THEN /\ log[i].op = "clear" /\ log[i].what = "eye"
             /\ log[i].scissor_test
             /\ log[i].viewport = EyeRect(eye) /\ log[i].scissor = EyeRect(eye)
        ELSE IF log[i - 1].op = "clear" /\ ~(prog = "sbs" /\ test_pattern)
        THEN log[i].op = "set_projection" /\ log[i].what = eye
        ELSE log[i].op \in DrawOps

Presents == {i \in DOMAIN log : log[i].op = "swap"}

----------------------------------------------------------------------------
\* the place of a draw call in render_scene: particles, floor grid, solid bodies, ring
Rank(e) ==
    IF e.op = "draw_starfield" THEN 1
    ELSE IF e.op = "draw_floor_grid" THEN 2
    ELSE IF e.what = "object" THEN 3
    ELSE 4

\* the draw calls of an eye whose rank is k
Drawn(eye, k) == {i \in Entries(eye, DrawOps) : Rank(log[i]) = k}

\* the eye's render_scene has returned
EyeRendered(eye) ==
    \/ eye = "left" /\ pc \in {"right", "present"}
    \/ eye = "right" /\ pc = "present"
    \/ FrameDone

(* C13: in the demo each eye draws the particles, then the floor grid, then the   *)
(* solid bodies, then the ring; the depth test is disabled at the particle and the *)
(* grid draw and enabled at the draw of every solid body and of every ring         *)
(* sub-solid; the depth test is enabled when an eye's render is over, so the right *)
(* eye starts (at its clear) with the depth test as the left eye did.              *)
C13_DrawOrderAndDepthTest ==
    prog = "demo" =>
        /\ \A eye \in {"left", "right"} :
             /\ \A i \in Entries(eye, DrawOps) :
                  \* the draws of an eye follow its camera without a gap, in rank order
                  /\ IF log[i - 1].op \in DrawOps
                     THEN log[i - 1].eye = eye /\ Rank(log[i - 1]) <= Rank(log[i])
                     ELSE log[i - 1].op = "set_projection"
                  /\ log[i].depth_test = (Rank(log[i]) >= 3)
                  /\ Rank(log[i]) >= 3 => log[i].op = "draw_cube"
             /\ \A i \in Entries(eye, {"clear"}) : log[i].depth_test
             /\ EyeRendered(eye) =>
                  /\ Cardinality(Drawn(eye, 1)) = 1
                  /\ Cardinality(Drawn(eye, 2)) = 1
                  /\ Cardinality(Drawn(eye, 3)) = Len(objects)
                  /\ Cardinality(Drawn(eye, 4)) = RING_COUNT
        /\ pc \in {"loop", "clock", "render", "left", "right", "present"} => gl.depth_test

\* the left eye has drawn its whole scene and the right eye is about to start
C13_Witness ==
    /\ prog = "demo" /\ pc = "right"
    /\ gl.depth_test
    /\ Cardinality(Drawn("left", 4)) = RING_COUNT
    /\ \E i \in Drawn("left", 2) : ~log[i].depth_test

----------------------------------------------------------------------------
\* the planes of the glFrustum call an installed projection matrix was made by
Horizontal(proj) == <<proj[1][2], proj[1][3]>>

Vertical(proj) == <<proj[1][4], proj[1][5]>>

(* C14: in viture_sbs_renderer the two eyes of a frame get frusta skewed in       *)
(* opposite directions: whenever the IPD is positive the (left_f, right_f) pair of *)
(* the left eye differs from the pair of the right eye, and the (bottom, top)      *)
(* planes of the two eyes are the same.                                            *)
C14_AsymmetricFrustum ==
    prog = "sbs" =>
        \A i, j \in Cameras :
            (log[i].eye = "left" /\ log[j].eye = "right" /\ log[i].cfg.ipd > 0) =>
                /\ log[i].proj[1][1] = "frustum" /\ log[j].proj[1][1] = "frustum"
                /\ Horizontal(log[i].proj) # Horizontal(log[j].proj)
                /\ Vertical(log[i].proj) = Vertical(log[j].proj)

\* what does hold: both eyes get one and the same frustum
SbsFrustumShared ==
    prog = "sbs" =>
        \A i, j \in Cameras : log[i].cfg = log[j].cfg => log[i].proj = log[j].proj

----------------------------------------------------------------------------
\* the pixel columns of a rectangle <<x, y, w, h>>
Columns(rect) == rect[1] .. (rect[1] + rect[3] - 1)

(* C15: whatever surface size VitureRenderer was constructed with, the left eye's *)
(* rectangle is the left half [0, width/2) and the right eye's the right half       *)
(* [width/2, width): both are width/2 wide and of full height, they share no pixel  *)
(* column, and together they hold every pixel column of the surface.                *)
C15_EyesPartitionSurface ==
    prog = "sbs" =>
        \A i \in Entries("left", {"clear"}), j \in Entries("right", {"clear"}) :
            LET l == log[i].scissor
                r == log[j].scissor
                c == log[i].cfg
            IN  /\ l = log[i].viewport /\ r = log[j].viewport
                /\ l[1] = 0 /\ 2 * r[1] = c.width
                /\ 2 * l[3] = c.width /\ r[3] = l[3]
                /\ l[4] = c.height /\ r[4] = c.height
                /\ Columns(l) \cap Columns(r) = {}
                /\ Columns(l) \cup Columns(r) = 0 .. (c.width - 1)

\* what does hold for every size: two disjoint rectangles of width // 2 columns each,
\* side by side from column 0, which leave out the last column of an odd width
EyesSideBySide ==
    prog = "sbs" =>
        \A i \in Entries("left", {"clear"}), j \in Entries("right", {"clear"}) :
            LET l == log[i].scissor
                r == log[j].scissor
                c == log[i].cfg
            IN  /\ l = <<0, 0, c.width \div 2, c.height>>
                /\ r = <<c.width \div 2, 0, c.width \div 2, c.height>>
                /\ Columns(l) \cap Columns(r) = {}
                /\ Columns(l) \cup Columns(r) = 0 .. (2 * (c.width \div 2) - 1)

----------------------------------------------------------------------------
\* an FPS observation has been emitted
Emitted == hist.emit.tested # -1

(* C16: the FPS observation is rate-limited to a window of 1 s, in both run loops. *)
(* An iteration emits it exactly when at least 1.0 s has passed since the window    *)
(* start, which is the loop start or the previous emission; the emission resets the *)
(* frame counter to 0 and moves the window start to the current time; otherwise the *)
(* counter grows by one per rendered frame. So two successive emissions are at      *)
(* least 1.0 s apart and the frame count reported is the number of frames rendered  *)
(* since the previous emission.                                                     *)
C16_FpsRateLimited ==
    /\ frame_count = (IF pc = "count" THEN hist.since - 1 ELSE hist.since)
    /\ fps_time = (IF Emitted THEN hist.emit.set ELSE 0)
    /\ Emitted =>
         /\ hist.emit.tested - hist.emit.window >= FPS_WINDOW
         /\ hist.emit.window = (IF hist.prev_set = -1 THEN 0 ELSE hist.prev_set)
         /\ hist.emit.frames = hist.emit.counted
         /\ hist.emit.set >= hist.emit.tested
         /\ prog = "demo" => hist.emit.set = hist.emit.tested
         /\ hist.prev_set # -1 => hist.emit.tested - hist.prev_set >= FPS_WINDOW
    /\ hist.emit.fresh => (frame_count = 0 /\ fps_time = hist.emit.set)
    /\ (pc = "loop" /\ hist.frames > 0 /\ ~hist.emit.fresh) =>
         (frame_count > 0 /\ now - fps_time < FPS_WINDOW)

\* a second emission, one window after the first
C16_Witness ==
    /\ pc = "loop" /\ hist.emit.fresh
    /\ hist.prev_set # -1
    /\ hist.emit.tested - hist.prev_set >= FPS_WINDOW

----------------------------------------------------------------------------
(* C17: once a GL call of render_frame has raised, in either program, the run     *)
(* loop is over: control is in main's handler or beyond, so no event is polled and  *)
(* nothing is rendered any more, the failed frame gets no further GL call; main has *)
(* reported the failure once when it reaches its finally clause, and when the       *)
(* process ends cleanup() has run exactly once, not before the handler.             *)
C17_RenderFailureFatal ==
    hist.render_failure =>
        /\ pc \in {"except", "finally", "done"}
        /\ Len(log) = hist.calls_at_failure
        /\ hist.reports = (IF pc = "except" THEN 0 ELSE 1)
        /\ hist.cleanups = (IF pc = "done" THEN 1 ELSE 0)

\* the process has ended after a frame failed between its first and its last GL call
C17_Witness ==
    /\ pc = "done" /\ hist.render_failure
    /\ hist.calls_at_failure > 1
    /\ hist.reports = 1 /\ hist.cleanups = 1

----------------------------------------------------------------------------
(* viture_direct_gl.main from os.open on: display discovery over libdrm          *)
(*   pc: "main" -> "connectors" -> "done", "main" -> "done"                       *)
(* drm.connectors[k] is what drmModeGetConnector returns for the k-th connector   *)
(* id; drm.hdmi_connector is the index of the connector main holds, 0 for None;   *)
(* drm.frees[k] counts the drmModeFreeConnector calls on connector k.             *)

NullConnector == [null |-> TRUE, connector_type |-> 0, connection |-> 0]

\* the answers of drmModeGetConnector: NULL, or a connector of a type and status
ConnectorAnswers ==
    {NullConnector} \cup
    [null : {FALSE},
     connector_type : {DRM_MODE_CONNECTOR_HDMIA, DRM_MODE_CONNECTOR_HDMIB,
                       DRM_MODE_CONNECTOR_DisplayPort},
     connection : {DRM_MODE_CONNECTED, DRM_MODE_DISCONNECTED}]

\* res.contents.connectors, by what drmModeGetConnector will answer for each
ConnectorLists == UNION { [1..n -> ConnectorAnswers] : n \in 0..MaxConnectors }

DrmInit ==
    /\ prog = "direct_gl"
    /\ pc = "main"
    /\ test_pattern = FALSE
    /\ cfg = NoConfig
    /\ running = FALSE
    /\ stars = <<>>
    /\ objects = <<>>
    /\ gl = NoGl
    /\ now = 0
    /\ dt = 0
    /\ log = <<>>
    /\ constructed = FALSE
    /\ frame_count = 0
    /\ fps_time = 0
    /\ hist = NoHist
    /\ \E cs \in ConnectorLists, lm \in BOOLEAN, rn \in BOOLEAN :
         drm = [NoDrm EXCEPT !.connectors = cs, !.list_modes = lm, !.res_null = rn,
                             !.frees = [k \in DOMAIN cs |-> 0]]

\* the renderers' variables, which viture_direct_gl does not have
DrmOnly ==
    UNCHANGED <<prog, test_pattern, cfg, running, stars, objects, gl, now, dt, log,
                constructed, frame_count, fps_time>>

\* libdrm.drmModeFreeConnector on connector k
FreeConnector(d, k) == [d EXCEPT !.frees[k] = @ + 1]

\* fd = os.open(...); res = drmModeGetResources(fd); when that fails: os.close(fd),
\* sys.exit(1)
DrmOpen ==
    /\ prog = "direct_gl"
    /\ pc = "main"
    /\ IF drm.res_null
       THEN /\ drm' = [drm EXCEPT !.fd_opens = @ + 1, !.fd_closes = @ + 1,
                                  !.path = "no_resources"]
            /\ hist' = [hist EXCEPT !.status = 1, !.exit = 1]
            /\ pc' = "done"
       ELSE /\ drm' = [drm EXCEPT !.fd_opens = @ + 1]
            /\ hist' = hist
            /\ pc' = "connectors"
    /\ DrmOnly

\* one iteration of "for i in range(res.contents.count_connectors)"
DrmGetConnector ==
    /\ prog = "direct_gl"
    /\ pc = "connectors"
    /\ drm.i < Len(drm.connectors)
    /\ LET k == drm.i + 1
           conn == drm.connectors[k]
           d == [drm EXCEPT !.i = k]
       IN  drm' =
             IF conn.null THEN d
             ELSE IF conn.connector_type \in
                        {DRM_MODE_CONNECTOR_HDMIA, DRM_MODE_CONNECTOR_HDMIB}
                  THEN IF conn.connection = DRM_MODE_CONNECTED
                       THEN [d EXCEPT !.hdmi_connector = k]
                       ELSE FreeConnector(d, k)
                  ELSE FreeConnector(d, k)
    /\ UNCHANGED <<pc, hist>>
    /\ DrmOnly

\* "if not hdmi_connector:": free the resources, close the device, sys.exit(1)
DrmNoHdmi ==
    /\ prog = "direct_gl"
    /\ pc = "connectors"
    /\ drm.i = Len(drm.connectors)
    /\ drm.hdmi_connector = 0
    /\ drm' = [drm EXCEPT !.res_frees = @ + 1, !.fd_closes = @ + 1, !.path = "no_hdmi"]
    /\ hist' = [hist EXCEPT !.status = 1, !.exit = 1]
    /\ pc' = "done"
    /\ DrmOnly

\* "if args.list_modes:": free the connector held, the resources, close, return
DrmListModes ==
    /\ prog = "direct_gl"
    /\ pc = "connectors"
    /\ drm.i = Len(drm.connectors)
    /\ drm.hdmi_connector # 0
    /\ drm.list_modes
    /\ drm' = [FreeConnector(drm, drm.hdmi_connector) EXCEPT
                 !.res_frees = @ + 1, !.fd_closes = @ + 1, !.path = "list_modes"]
    /\ hist' = [hist EXCEPT !.exit = 0]
    /\ pc' = "done"
    /\ DrmOnly

\* the end of main: print the advice, "# Cleanup"
DrmCleanup ==
    /\ prog = "direct_gl"
    /\ pc = "connectors"
    /\ drm.i = Len(drm.connectors)
    /\ drm.hdmi_connector # 0
    /\ ~drm.list_modes
    /\ drm' = [FreeConnector(drm, drm.hdmi_connector) EXCEPT
                 !.res_frees = @ + 1, !.fd_closes = @ + 1, !.path = "success"]
    /\ hist' = [hist EXCEPT !.exit = 0]
    /\ pc' = "done"
    /\ DrmOnly

DrmNext ==
    \/ DrmOpen
    \/ DrmGetConnector
    \/ DrmNoHdmi
    \/ DrmListModes
    \/ DrmCleanup

DrmSpec == DrmInit /\ [][DrmNext]_vars

\* the connectors drmModeGetConnector has returned non-null so far
Acquired == {k \in 1 .. drm.i : ~drm.connectors[k].null}

\* the connectors reported as HDMI and connected
ConnectedHdmi ==
    {k \in DOMAIN drm.connectors :
        /\ ~drm.connectors[k].null
        /\ drm.connectors[k].connector_type \in
             {DRM_MODE_CONNECTOR_HDMIA, DRM_MODE_CONNECTOR_HDMIB}
        /\ drm.connectors[k].connection = DRM_MODE_CONNECTED}

(* C18: whatever connectors the DRM device reports, when main has returned or     *)
(* exited on the success path, the --list-modes path or the no-HDMI path, every    *)
(* connector that drmModeGetConnector returned non-null has been freed exactly     *)
(* once, the resources have been freed exactly once and the device file descriptor *)
(* has been closed exactly once; nothing is ever freed or closed twice.            *)
C18_DiscoveryReleasesAll ==
    prog = "direct_gl" =>
        /\ \A k \in DOMAIN drm.frees : drm.frees[k] <= 1
        /\ drm.res_frees <= 1 /\ drm.fd_closes <= drm.fd_opens /\ drm.fd_opens <= 1
        /\ (pc = "done" /\ drm.path \in {"success", "list_modes", "no_hdmi"}) =>
             /\ \A k \in Acquired : drm.frees[k] = 1
             /\ drm.res_frees = 1
             /\ drm.fd_closes = 1

\* what does hold: the resources and the descriptor are released exactly once on every
\* path, nothing is released twice, a NULL connector is never freed, and every
\* connector is freed once except the connected HDMI connectors before the last one
DrmReleasesAllButEarlierHdmi ==
    (prog = "direct_gl" /\ pc = "done") =>
        /\ drm.fd_closes = 1
        /\ drm.res_frees = (IF drm.path = "no_resources" THEN 0 ELSE 1)
        /\ \A k \in DOMAIN drm.frees :
             drm.frees[k] =
                (IF k \in Acquired /\ ~(k \in ConnectedHdmi /\ k # drm.hdmi_connector)
                 THEN 1 ELSE 0)

====
